---- MODULE Spec2Model ----
(***************************************************************************)
(* Orchestration loops of the three single-file agents                     *)
(*   file_agent/file_agent.py, git_agent/git_agent.py,                     *)
(*   browser_agent/browser_agent.py.                                       *)
(* One run of main() is a behaviour: the planner (choose_tool) and the     *)
(* capabilities (TOOL_REGISTRY functions) are the environment, their       *)
(* answers are drawn nondeterministically.                                 *)
(*                                                                         *)
(* An instruction is modelled as its sequence of lower-cased words, joined *)
(* by single blanks (main() joins sys.argv[1:] with " ").  A result text   *)
(* is modelled by the capability's outcome and by the set of marker        *)
(* substrings ("not found", "cancelled") that occur in it, whether they    *)
(* come from the message itself or from an argument echoed in it.          *)
(***************************************************************************)
EXTENDS Integers, Sequences, FiniteSets, TLC

VARIABLES
    agent,                 \* which agent's main() is running
    user_input,            \* the instruction, as a sequence of words
    pc,                    \* "start" | "estimated" | "loop" | "executing" | "terminal"
    iterations,            \* planner calls made so far (loop index)
    executions,            \* capability functions called so far
    tool,                  \* local `tool` / `tool_name` of main()
    done,                  \* local `done` of main()
    last_tool,             \* file agent: local `last_tool`
    validation_count,      \* file agent: local `validation_count`
    total_operations,      \* git agent: local `total_operations`
    completed_operations,  \* git agent: local `completed_operations`
    last_turn,             \* conversation_history[-1] (kind and markers)
    result,                \* what the last capability call produced
    outcome,               \* how the run ended
    clean,                 \* every planner turn so far named a registered
                           \* capability that neither raised nor was cancelled
    response,              \* what the last planner call produced: its kind
                           \* and the name in its first invocation encoding
    conversation_history,  \* the roles of the turns of conversation_history
    status_line,           \* the line main() prints when it leaves the loop
    exit_status,           \* process exit status, started directly and
                           \* started through main.py
    session,               \* browser agent: _playwright_instance, _browser
                           \* and what they refer to
    registry,              \* TOOL_REGISTRY while the module is loaded
    raw_output,            \* a planner text and where its envelope stands
    parsed,                \* what choose_tool made of raw_output
    filesystem,            \* the empty files and the directories under a path
    final_summary,         \* the result text of a file capability and the
                           \* filesystem it was called on
    classified,            \* two calls of one capability with one outcome and
                           \* different names, and what the loop decides
    commit,                \* one call of git_commit
    page,                  \* the loaded page, _current_page_elements and the
                           \* last resolution of an identifier
    call                   \* the last call of a browser capability made
                           \* outside a run, and what it returned

vars == <<agent, user_input, pc, iterations, executions, tool, done, last_tool,
          validation_count, total_operations, completed_operations, last_turn,
          result, outcome, clean, response, conversation_history, status_line,
          exit_status, session, registry, raw_output, parsed,
          filesystem, final_summary, classified, commit, page, call>>

\* the variables of a run of main()
run == <<agent, user_input, pc, iterations, executions, tool, done, last_tool,
         validation_count, total_operations, completed_operations, last_turn,
         result, outcome, clean, response, conversation_history, status_line,
         exit_status, session>>

\* the variables of the parts that are checked on their own
components ==
    <<registry, raw_output, parsed, filesystem, final_summary, classified,
      commit, page, call>>

----------------------------------------------------------------------------
(* Bounds *)

MaxWords == 5          \* longest instruction of the estimate specification
MaxConnectives == 2    \* most connectives in an instruction of a run

----------------------------------------------------------------------------
(* Instructions and the operation estimate *)

Words == {"w", "then", "and", "after", "next"}

None == "None"

\* the single-word alternatives of the connective pattern
SingleConnectives == {"then", "after", "next"}

Instructions == UNION {[1..n -> Words] : n \in 1..MaxWords}

\* the blank between word k and word k+1 exists
HasBlank(words, k) == k >= 1 /\ k < Len(words)

\* `\s(?:then|after|next)\s` matches starting at the blank after word k
MatchSingle(words, k) ==
    /\ HasBlank(words, k)
    /\ words[k + 1] \in SingleConnectives
    /\ HasBlank(words, k + 1)

\* `\s(?:and then)\s` matches starting at the blank after word k
MatchAndThen(words, k) ==
    /\ HasBlank(words, k)
    /\ words[k + 1] = "and"
    /\ HasBlank(words, k + 1)
    /\ words[k + 2] = "then"
    /\ HasBlank(words, k + 2)

\* number of non-overlapping matches of the connective pattern found by
\* re.split, scanning from the blank after word k
RECURSIVE SplitMatches(_, _)
SplitMatches(words, k) ==
    IF k >= Len(words) THEN 0
    ELSE IF MatchSingle(words, k) THEN 1 + SplitMatches(words, k + 2)
    ELSE IF MatchAndThen(words, k) THEN 1 + SplitMatches(words, k + 3)
    ELSE SplitMatches(words, k + 1)

EstimateOffByOne(words) == SplitMatches(words, 1)

\* len(re.split(r'\s(?:then|and then|after|next)\s', user_input.lower()))
Estimate(words) == 1 + SplitMatches(words, 1)

\* number of non-overlapping occurrences of " and then ", scanning from the
\* blank after word k
RECURSIVE AndThenMatches(_, _)
AndThenMatches(words, k) ==
    IF k >= Len(words) THEN 0
    ELSE IF MatchAndThen(words, k) THEN 1 + AndThenMatches(words, k + 3)
    ELSE AndThenMatches(words, k + 1)

\* len(user_input.lower().split(" and then "))
AndThenPieces(words) == 1 + AndThenMatches(words, 1)

\* " and then " in user_input.lower()
HasAndThen(words) == \E k \in 1..Len(words) : MatchAndThen(words, k)

\* Every word of the instruction that is a connective ("and then" is counted
\* by its "then")
Connectives(words) == Cardinality({k \in 1..Len(words) : words[k] \in SingleConnectives})

\* every connective stands strictly inside the instruction and no two
\* connectives are neighbours
WellDelimited(words) ==
    \A k \in 1..Len(words) :
        words[k] \in SingleConnectives =>
            /\ k > 1
            /\ k < Len(words)
            /\ words[k - 1] \notin SingleConnectives
            /\ words[k + 1] \notin SingleConnectives

\* instructions of the runs:  w (then | and then) w (then | and then) w ...
RunPhrases == {<<"then">>, <<"and", "then">>}

RECURSIVE Chains(_)
Chains(k) ==
    IF k = 0 THEN {<<"w">>}
    ELSE {c \o p \o <<"w">> : c \in Chains(k - 1), p \in RunPhrases}

RunInstructions == UNION {Chains(k) : k \in 0..MaxConnectives}

\* the instruction that asks for the catalog, as typed
ListInstructions == {<<"list-tools">>, <<"List-Tools">>}

\* str.lower(), word by word
LowerWord(w) == IF w = "List-Tools" THEN "list-tools" ELSE w
Lower(words) == [i \in DOMAIN words |-> LowerWord(words[i])]

IsListToolsExact(words) == words = <<"list-tools">>

\* user_input.lower() == "list-tools"
IsListTools(words) == Lower(words) = <<"list-tools">>

----------------------------------------------------------------------------
(* Registries, planner answers, capability results *)

Agents == {"file", "git", "browser"}

FileMaxIterations == 15
GitMaxIterations == 10
BrowserMaxIterations == 20

max_iterations(a) ==
    CASE a = "file" -> FileMaxIterations
      [] a = "git" -> GitMaxIterations
      [] a = "browser" -> BrowserMaxIterations

\* representatives of the registered capabilities, one per way the
\* controllers treat a capability name
FileRegistry == {"view_file", "create_file", "delete_file", "delete_directory"}
GitRegistry == {"git_status", "git_checkout", "git_reset"}
BrowserRegistry ==
    {"launch_browser", "close_browser", "navigate_to_url", "click_element"}

TOOL_REGISTRY(a) ==
    CASE a = "file" -> FileRegistry
      [] a = "git" -> GitRegistry
      [] a = "browser" -> BrowserRegistry

\* names a planner may put in the envelope: registered ones, the literal
\* "done", and a name that is not registered
PlannerNames(a) == TOOL_REGISTRY(a) \cup {"done", "bogus"}

\* a JSON list as the "tool" value of an envelope
Unhashable == "[list]"

\* "tool" values of an envelope that are no strings: null and a list
OddNames == {None, Unhashable}

\* the name in a second invocation encoding of the planner's text, if any
MoreEncodings == {None, "bogus"}

\* what the planner call produces (file and git agents): tool and done are
\* those of the first encoding in the text
JsonResponses(a) ==
    [kind : {"envelope"}, tool : PlannerNames(a) \cup OddNames, done : BOOLEAN,
     more : MoreEncodings]
    \cup [kind : {"no_json", "bad_json", "missing_field", "planner_error"},
          tool : {None}, done : {FALSE}, more : {None}]

\* what the planner call produces (browser agent)
TagResponses ==
    [kind : {"envelope"}, tool : PlannerNames("browser"), done : {FALSE},
     more : MoreEncodings]
    \cup [kind : {"no_tag", "bad_args", "planner_error"},
          tool : {None}, done : {FALSE}, more : {None}]

NoResponse == [kind |-> "none", tool |-> None]
Response(resp) == [kind |-> resp.kind, tool |-> resp.tool]

\* an encoding was found and its argument payload does not deserialize
Malformed == {"bad_json", "bad_args"}

\* no encoding was found in the planner's text
NoEncoding == {"no_json", "no_tag"}

ParsedToolMalformedKept(resp) ==
    IF resp.kind = "envelope" THEN resp.tool
    ELSE IF resp.kind \in Malformed THEN "bogus" ELSE "done"

ParsedToolNoEncodingKept(resp) ==
    IF resp.kind = "envelope" THEN resp.tool
    ELSE IF resp.kind \in NoEncoding THEN "bogus" ELSE "done"

ParsedToolLast(resp) ==
    IF resp.kind = "envelope"
    THEN IF resp.more # None THEN resp.more ELSE resp.tool
    ELSE "done"

\* first component of what choose_tool returns: re.search gives the first
\* match only
ParsedTool(resp) == IF resp.kind = "envelope" THEN resp.tool ELSE "done"

\* third component of what choose_tool returns, file and git agents
ParsedDone(resp) == IF resp.kind = "envelope" THEN resp.done ELSE TRUE

\* third component of what choose_tool returns, browser agent
BrowserParsedDone(resp) == IF resp.kind = "envelope" THEN FALSE ELSE TRUE

Marks == {"not found", "cancelled"}

NoTurn == [kind |-> "none", marks |-> {}]
Turn(k) == [kind |-> k, marks |-> {}]
ResultTurn(m) == [kind |-> "result", marks |-> m]

NoResult == [outcome |-> "none", marks |-> {}]

\* outcomes a capability call can have
FileOutcomes(t) ==
    CASE t = "view_file" -> {"ok", "not_found", "raised"}
      [] t = "create_file" -> {"ok", "cancelled", "raised"}
      [] t = "delete_file" -> {"ok", "not_found", "cancelled", "raised"}
      [] t = "delete_directory" -> {"ok", "not_found", "cancelled", "raised"}

\* "git_error": git ended with a return code other than 0 and the summary
\* reports it
GitOutcomes(t) ==
    CASE t = "git_status" -> {"ok", "git_error", "raised"}
      [] t = "git_checkout" -> {"ok", "git_error", "not_found", "raised"}
      [] t = "git_reset" -> {"ok", "git_error", "cancelled", "raised"}

\* "failed": the capability caught an error itself and returned its text
BrowserOutcomes(t) ==
    CASE t = "launch_browser" -> {"ok", "failed", "raised"}
      [] t = "close_browser" -> {"ok", "failed", "raised"}
      [] t = "navigate_to_url" -> {"ok", "not_found", "raised"}
      [] t = "click_element" -> {"ok", "not_found", "raised"}

\* markers the message of an outcome contains by itself
OutcomeMarks(o) ==
    CASE o = "not_found" -> {"not found"}
      [] o = "cancelled" -> {"cancelled"}
      [] OTHER -> {}

\* the message of this outcome repeats a path argument of the call
Echoes(t, o) == ~(t = "create_file" /\ o = "cancelled")

\* markers a file capability's result text can contain
FileResultMarks(t, o) ==
    IF Echoes(t, o)
    THEN {OutcomeMarks(o) \cup e : e \in SUBSET Marks}
    ELSE {OutcomeMarks(o)}

\* markers of a git capability's summary
GitOutcomeMarks(o) ==
    CASE o = "cancelled" -> {"cancelled by user"}
      [] o = "git_error" -> {"git error"}
      [] OTHER -> {}

----------------------------------------------------------------------------
(* The browser session *)

\* handle: _browser is set; page: _page is set; browser: the browser
\* _browser refers to;
\* playwright: the driver _playwright_instance refers to; orphan: a driver
\* that was started is running and no global refers to it any more;
\* closed_twice: close() was called on a browser that was closed already
NoSession ==
    [handle |-> FALSE, page |-> FALSE, browser |-> "none",
     playwright |-> "none", orphan |-> FALSE, closed_twice |-> FALSE]

\* sync_playwright().start() succeeded, _browser was not assigned
DriverStarted(s) ==
    [s EXCEPT !.playwright = "running",
              !.orphan = s.orphan \/ s.playwright = "running"]

\* launch() succeeded as well
BrowserStarted(s) ==
    [DriverStarted(s) EXCEPT !.handle = TRUE, !.browser = "open"]

\* _browser.close() was called
CloseCalled(s) ==
    [s EXCEPT !.browser = "closed",
              !.closed_twice = s.closed_twice \/ s.browser = "closed"]

\* new_page() succeeded as well
PageOpened(s) ==
    [BrowserStarted(s) EXCEPT !.page = TRUE]

\* close() and stop() succeeded, the globals are reset
BrowserClosed(s) ==
    [CloseCalled(s) EXCEPT !.playwright = "stopped", !.handle = FALSE,
                           !.page = FALSE]

\* the sessions a call of launch_browser with this outcome can leave
LaunchBrowser(o, s) ==
    CASE o = "raised" -> {s}
      [] o = "ok" -> IF s.handle THEN {s} ELSE {PageOpened(s)}
      [] o = "failed" ->
            IF s.handle THEN {}
            ELSE {s,                   \* start() raised
                  DriverStarted(s),    \* invalid type, or launch() raised
                  BrowserStarted(s)}   \* new_page() raised

\* the sessions a call of close_browser with this outcome can leave
CloseBrowser(o, s) ==
    CASE o = "raised" -> {s}
      [] o = "ok" -> IF s.handle THEN {BrowserClosed(s)} ELSE {s}
      [] o = "failed" ->
            IF s.handle
            THEN {s,                   \* close() raised
                  CloseCalled(s)}      \* stop() raised
            ELSE {}

SessionAfter(t, o, s) ==
    CASE t = "launch_browser" -> LaunchBrowser(o, s)
      [] t = "close_browser" -> CloseBrowser(o, s)
      [] OTHER -> {s}

----------------------------------------------------------------------------
(* Decisions of the controllers *)

InRangeOffByOne(i, max) == i <= max

\* for _ in range(max_iterations)
InRange(i, max) == i < max

\* `tool in TOOL_REGISTRY` raises TypeError for a value that cannot be hashed
MembershipTypeError(t) == t = Unhashable

\* conversation_history[-1] raises IndexError on the empty list; it is
\* evaluated when tool == last_tool
FileIndexError(t, last, history) == t = last /\ history = <<>>

FileStagnantNever(t, last, turn) == FALSE

\* tool == last_tool and "not found" in conversation_history[-1]["content"].lower()
FileStagnant(t, last, turn) == t = last /\ "not found" \in turn.marks

\* members of the three name lists of the file agent's loop
ReadOnlyTools == {"view_file"}
ValidationTools == {"delete_file", "delete_directory"}
ContinueTools == {"delete_directory"}

\* done = done or (" and then " not in user_input.lower()), for the listed tools
AutoDone(t, d, words) == d \/ (t \in ReadOnlyTools /\ ~HasAndThen(words))

\* the step is counted in validation_count
Counted(t, m) == t \in ValidationTools /\ "cancelled" \notin m

\* the step takes the `continue` of the cancelled branch
CancelledContinue(t, m) == t \in ContinueTools /\ "cancelled" \in m

\* validation_count > len(user_input.lower().split(" and then ")) + 1
TooManyValidations(vc, words) == vc > AndThenPieces(words) + 1

GitCancelledNever(m) == FALSE

GitCancelledOrError(m) == "cancelled by user" \in m \/ "git error" \in m

\* "cancelled by user" in result_summary.lower()
GitCancelled(m) == "cancelled by user" \in m

GitDoneLate(d, completed, total) == d \/ completed > total

GitDoneBoth(d, completed, total) == d /\ completed >= total

\* done or completed_operations >= total_operations
GitDoneFlagOnly(d, completed, total) == d

GitDone(d, completed, total) == d \/ completed >= total

\* tool_name in ["launch_browser", "navigate_to_url"]
CriticalTools == {"launch_browser", "navigate_to_url"}

BrowserAbortsAlways(t) == TRUE

\* the browser agent gives up after an error of this capability
BrowserAborts(t) == t \in CriticalTools

----------------------------------------------------------------------------
(* The registry *)

MaxDefs == 4

\* names of the functions decorated with @tool
DefNames == {"view_file", "create_file", "delete_file"}

\* entries: the dict in insertion order; defined: number of decorated defs
\* so far (the n-th def is function n); last: the name decorated last;
\* error: what the decorator raised
NoRegistry == [entries |-> <<>>, defined |-> 0, last |-> None, error |-> "none"]

Registered(entries, name) == \E i \in DOMAIN entries : entries[i].name = name

\* TOOL_REGISTRY[func.__name__] = {...}: a new key goes to the end, an
\* existing key keeps its place and takes the new value
SetItem(entries, name, func) ==
    IF Registered(entries, name)
    THEN [i \in DOMAIN entries |->
             IF entries[i].name = name
             THEN [name |-> name, function |-> func] ELSE entries[i]]
    ELSE Append(entries, [name |-> name, function |-> func])

----------------------------------------------------------------------------
(* The planner's text and the two regular expressions *)

MaxArgLen == 3
MaxPages == 3

\* characters of a planner text: "{" and "}" of the JSON structure, "s{" and
\* "s}" braces inside a JSON string, "n" a line break between JSON tokens,
\* "c" any other character, "<" the text <function=name= and ">" the text
\* ></function>
ArgTokens == {"{", "}", "s{", "s}", "n", "c"}

IsOpen(ch) == ch \in {"{", "s{"}
IsClose(ch) == ch \in {"}", "s}"}
IsBrace(ch) == IsOpen(ch) \/ IsClose(ch)

\* depth of the JSON structure after the characters of body, -1 once a "}"
\* had no "{" to close
RECURSIVE Depth(_)
Depth(body) ==
    IF body = <<>> THEN 0
    ELSE LET before == Depth(SubSeq(body, 1, Len(body) - 1))
             ch == body[Len(body)]
         IN  IF before < 0 THEN before
             ELSE IF ch = "{" THEN before + 1
             ELSE IF ch = "}" THEN before - 1
             ELSE before

\* what stands between the braces of an argument object
ArgBodies ==
    {body \in UNION {[1..n -> ArgTokens] : n \in 0..MaxArgLen} : Depth(body) = 0}

Prose == {<<>>, <<"c">>}

\* {"tool": ..., "args": {body}, "done": ...} with prose around it
JsonText(before, body, after) ==
    [format |-> "json",
     text |-> before \o <<"{", "c", "{">> \o body \o <<"}", "c", "}">> \o after,
     first |-> Len(before) + 1,
     last |-> Len(before) + Len(body) + 6]

\* <function=name={body}></function> with prose around it
TagText(before, body, after) ==
    [format |-> "tag",
     text |-> before \o <<"<", "{">> \o body \o <<"}", ">">> \o after,
     first |-> Len(before) + 2,
     last |-> Len(before) + Len(body) + 3]

Texts ==
    {JsonText(b, body, a) : b \in Prose, body \in ArgBodies, a \in Prose}
    \cup {TagText(b, body, a) : b \in Prose, body \in ArgBodies, a \in Prose}

NoText == [format |-> "none", text |-> <<>>, first |-> 0, last |-> 0]

\* \{[^{}]*\} from the brace at i: where it ends, 0 when it does not match
RECURSIVE InnerEnd(_, _)
InnerEnd(text, j) ==
    IF j > Len(text) THEN 0
    ELSE IF IsClose(text[j]) THEN j
    ELSE IF IsOpen(text[j]) THEN 0
    ELSE InnerEnd(text, j + 1)

\* (?:[^{}]|\{[^{}]*\})*\} from position j: where it ends, 0 when it does
\* not match
RECURSIVE OuterEnd(_, _)
OuterEnd(text, j) ==
    IF j > Len(text) THEN 0
    ELSE IF IsClose(text[j]) THEN j
    ELSE IF IsOpen(text[j])
         THEN LET e == InnerEnd(text, j + 1)
              IN  IF e = 0 THEN 0 ELSE OuterEnd(text, e + 1)
    ELSE OuterEnd(text, j + 1)

\* re.search(r'\{(?:[^{}]|\{[^{}]*\})*\}', raw_output): the first match
JsonSearch(text) ==
    LET starts == {i \in DOMAIN text : IsOpen(text[i]) /\ OuterEnd(text, i + 1) # 0}
    IN  IF starts = {} THEN <<0, 0>>
        ELSE LET i == CHOOSE k \in starts : \A m \in starts : k <= m
             IN  <<i, OuterEnd(text, i + 1)>>

\* the matched text is a JSON object: it runs from a "{" of the structure to
\* the "}" that closes it
IsJsonObject(text, i, e) ==
    /\ text[i] = "{"
    /\ text[e] = "}"
    /\ Depth(SubSeq(text, i, e)) = 0
    /\ \A k \in i..(e - 1) : Depth(SubSeq(text, i, k)) > 0

\* ({.*?})></function> from the brace at i: the first "}" followed by the
\* closing text, no line break before it
RECURSIVE TagEnd(_, _)
TagEnd(text, j) ==
    IF j >= Len(text) THEN 0
    ELSE IF IsClose(text[j]) /\ text[j + 1] = ">" THEN j
    ELSE IF text[j] = "n" THEN 0
    ELSE TagEnd(text, j + 1)

\* re.search(r'<function=([^=]+?)=({.*?})></function>', content)
TagSearch(text) ==
    LET starts == {i \in DOMAIN text :
                      /\ i > 1 /\ text[i - 1] = "<" /\ IsOpen(text[i])
                      /\ TagEnd(text, i + 1) # 0}
    IN  IF starts = {} THEN <<0, 0>>
        ELSE LET i == CHOOSE k \in starts : \A m \in starts : k <= m
             IN  <<i, TagEnd(text, i + 1)>>

\* what choose_tool gets from the text: "envelope" when the match is the
\* envelope (the argument object) that was written, so that json.loads
\* gives back its tool and its arguments
ParseJson(t) ==
    LET m == JsonSearch(t.text)
    IN  IF m = <<0, 0>> THEN "no_json"
        ELSE IF ~IsJsonObject(t.text, m[1], m[2]) THEN "bad_json"
        ELSE IF m = <<t.first, t.last>> THEN "envelope"
        ELSE "missing_field"

ParseTag(t) ==
    LET m == TagSearch(t.text)
    IN  IF m = <<0, 0>> THEN "no_tag"
        ELSE IF ~IsJsonObject(t.text, m[1], m[2]) THEN "bad_args"
        ELSE IF m = <<t.first, t.last>> THEN "envelope"
        ELSE "bad_args"

----------------------------------------------------------------------------
(* The filesystem of the cleaning capabilities *)

EmptyFiles == {"f1", "f2"}

\* empty directories; one of them has the name "cancelled"
EmptyDirs == {"d1", "cancelled"}

Filesystems == [files : SUBSET EmptyFiles, dirs : SUBSET EmptyDirs]

NoFilesystem == [files |-> {}, dirs |-> {}]

NoSummary == [tool |-> None, marks |-> {}, before |-> NoFilesystem]

\* markers a path puts into a text that repeats it
PathMarks(path) == IF path = "cancelled" THEN {"cancelled"} ELSE {}

\* one half of empty_cleanup: found is what the walk found, requested the
\* delete_empty_* argument, answer what the operator typed, removed what
\* os.remove / os.rmdir did not fail on
CleanupLeft(found, requested, answer, removed) ==
    IF found # {} /\ requested /\ answer = "y" THEN found \ removed ELSE found

CleanupMarks(found, requested, answer) ==
    IF found # {} /\ requested /\ answer # "y" THEN {"cancelled"} ELSE {}

\* no pair of calls
NoCalls == [tool |-> None, outcome |-> "none", texts |-> <<>>, decisions |-> <<>>]

----------------------------------------------------------------------------
(* git_commit *)

\* texts: "" the empty string, " " blanks only, "text" anything else
Falsy == {None, ""}

\* the message argument
CommitMessages == {None, "", " ", "text"}

\* the working directory: a repository with or without staged changes, or
\* no repository at all
Repositories == {"staged", "clean", "no_repo"}

\* return code of git diff --cached --quiet --exit-code
StagedCheck(repo) ==
    CASE repo = "clean" -> 0
      [] repo = "staged" -> 1
      [] repo = "no_repo" -> 128

\* what the model call gives: an error of the call, text that is no JSON,
\* or an object with or without "subject" and "body"
Drafts ==
    [kind : {"api_error", "bad_json"}, subject : {None}, body : {None}]
    \cup [kind : {"object"}, subject : {None, "", "text"},
          body : {None, "", "text"}]

\* f"{subject}\n\n{body}".strip() with the defaults of parsed_message.get
DraftedMessage(d) ==
    LET subject == IF d.subject = None THEN "text" ELSE d.subject
        body == IF d.body = None THEN "" ELSE d.body
    IN  IF subject = "" /\ body = "" THEN "" ELSE "text"

\* final_message after the try of git_commit
FinalMessage(d) ==
    CASE d.kind = "api_error" -> "default (AI generation failed)"
      [] d.kind = "bad_json" -> "default (AI failed to parse message)"
      [] d.kind = "object" -> DraftedMessage(d)

\* no model call made
NoDraft == [kind |-> "none", subject |-> None, body |-> None]

NoCommit ==
    [pc |-> "idle", message |-> None, repo |-> "clean", draft |-> NoDraft,
     final_message |-> None,
     model_called |-> FALSE, committed |-> None, result |-> "none"]

----------------------------------------------------------------------------
(* Element identifiers of the browser agent *)

\* pages 1..MaxPages; 0 is the blank page of a new browser
Urls == 0..MaxPages

\* identifiers a planner passes: IDs of get_page_state or a selector
Identifiers == {"E1", "E2", "#selector"}

\* the IDs _get_interactive_elements_info hands out on a page, numbered
\* from E1 on every page
ElementsOn(url) ==
    CASE url = 0 -> {}
      [] url = 1 -> {"E1"}
      [] OTHER -> {"E1", "E2"}

\* _current_page_elements: the IDs and the page their selectors are of
NoElements == [ids |-> {}, of |-> 0]

NoResolved == [tool |-> "none", identifier |-> "none", of |-> 0, url |-> 0]

NoPage ==
    [url |-> 0, current_page_elements |-> NoElements, resolved |-> NoResolved]

\* _current_page_elements.get(identifier, identifier): the selector of a
\* known ID is of the page it was captured on; anything else is used as
\* a selector itself, which is of the loaded page
Resolve(t, identifier) ==
    IF identifier \in page.current_page_elements.ids
    THEN [tool |-> t, identifier |-> identifier,
          of |-> page.current_page_elements.of, url |-> page.url]
    ELSE [tool |-> t, identifier |-> "#selector", of |-> page.url,
          url |-> page.url]

----------------------------------------------------------------------------
(* Calls of the browser capabilities *)

\* the capabilities that begin with the test of _page
PageTools ==
    {"navigate_to_url", "get_page_state", "type_text", "click_element",
     "get_element_text", "take_screenshot", "wait_for_selector"}

\* driver: the call reached Playwright
NoCall == [tool |-> "none", message |-> "none", driver |-> FALSE]

\* `if not _page` is not taken
HasPageOfBrowser(s) == s.handle

HasPage(s) == s.page

LaunchMessage(o, s) ==
    IF s.handle THEN "Browser already launched"
    ELSE IF o = "ok" THEN "Browser launched"
    ELSE "Error launching browser"

CloseMessage(o, s) ==
    IF ~s.handle THEN "No browser is currently launched"
    ELSE IF o = "ok" THEN "Browser closed"
    ELSE "Error closing browser"

\* the messages of a page capability
PageMessages(s) ==
    IF HasPage(s) THEN {"done", "error"} ELSE {"Browser not launched"}

IdleComponents ==
    /\ registry = NoRegistry
    /\ raw_output = NoText
    /\ parsed = "none"
    /\ filesystem = NoFilesystem
    /\ final_summary = NoSummary
    /\ classified = NoCalls
    /\ commit = NoCommit
    /\ page = NoPage
    /\ call = NoCall

----------------------------------------------------------------------------
(* The history, the final line and the exit status *)

\* messages = [system, *conversation_history, user] of choose_tool (file, git)
Messages(h) == <<"system">> \o h \o <<"user">>

\* the line main() prints at the break (or at the end of the loop) that ends
\* the run with outcome o; "none" when it prints nothing there, "traceback"
\* when an exception leaves main()
FinalLine(a, o) ==
    CASE o = "PlannerError" -> "traceback"
      [] o = "Crash" -> "traceback"
      [] o = "Interrupted" -> "interrupted"
      [] o = "Listed" -> "catalog"
      [] o = "Done" -> "completed"
      [] o = "Stagnation" -> "failed: repeated action"
      [] o = "TooManyValidations" -> "failed: too many validation steps"
      [] o = "ExecError" -> "error executing tool"
      [] o = "CriticalAbort" -> "aborted: critical operation failed"
      [] o = "UnknownTool" -> IF a = "file" THEN "completed" ELSE "unknown tool"
      [] o = "MaxIterations" -> IF a = "file" THEN "none" ELSE "failed: max iterations"

StillRunning == [direct |-> "running", via_main |-> "running"]

\* exit status of the process: main() returns (0) unless an exception leaves
\* it; main.py catches that exception and returns too
ExitStatus(o) ==
    IF o \in {"PlannerError", "Crash"} THEN [direct |-> 1, via_main |-> 0]
                          ELSE [direct |-> 0, via_main |-> 0]

\* what stays as it is while the run goes on
running == <<outcome, status_line, exit_status>>

----------------------------------------------------------------------------
(* Start of a run *)

\* main() up to the loop: the locals are set, the git agent estimates the
\* number of operations
Start ==
    /\ pc = "start"
    /\ IF IsListTools(user_input)
       THEN /\ pc' = "terminal"
            /\ outcome' = "Listed"
            /\ status_line' = FinalLine(agent, "Listed")
            /\ exit_status' = ExitStatus("Listed")
            /\ UNCHANGED <<total_operations, last_turn, conversation_history>>
       ELSE /\ pc' = "loop"
            /\ total_operations' =
                  IF agent = "git" THEN Estimate(user_input) ELSE 0
            /\ last_turn' = IF agent = "browser" THEN Turn("user") ELSE NoTurn
            /\ conversation_history' =
                  IF agent = "browser" THEN <<"user">> ELSE <<>>
            /\ UNCHANGED running
    /\ UNCHANGED <<components, session, agent, user_input, iterations,
                   executions, tool, done, last_tool, validation_count,
                   completed_operations, result, clean, response>>

InitLocals ==
    /\ pc = "start"
    /\ iterations = 0
    /\ executions = 0
    /\ tool = None
    /\ done = FALSE
    /\ last_tool = None
    /\ validation_count = 0
    /\ total_operations = 0
    /\ completed_operations = 0
    /\ last_turn = NoTurn
    /\ result = NoResult
    /\ outcome = "running"
    /\ clean = TRUE
    /\ response = NoResponse
    /\ conversation_history = <<>>
    /\ status_line = "none"
    /\ exit_status = StillRunning
    /\ session = NoSession

\* the browser agent's main() hands user_input to the planner and never
\* looks into it: one instruction stands for all
InstructionsOf(a) ==
    ListInstructions \cup (IF a = "browser" THEN Chains(0) ELSE RunInstructions)

Init ==
    /\ agent \in Agents
    /\ user_input \in InstructionsOf(agent)
    /\ InitLocals
    /\ IdleComponents

InitEstimate ==
    /\ agent \in Agents
    /\ user_input \in Instructions
    /\ InitLocals
    /\ IdleComponents

\* the run ends with outcome o
End(o) ==
    /\ pc' = "terminal"
    /\ outcome' = o
    /\ status_line' = FinalLine(agent, o)
    /\ exit_status' = ExitStatus(o)

----------------------------------------------------------------------------
(* File agent *)

\* one planner call and what main() decides from it
FilePlan ==
    /\ agent = "file"
    /\ pc = "loop"
    /\ InRange(iterations, max_iterations(agent))
    /\ \E resp \in JsonResponses("file") :
        LET t == ParsedTool(resp)
            d == ParsedDone(resp)
        IN  /\ iterations' = iterations + 1
            /\ clean' = (clean /\ resp.kind = "envelope" /\ t \in FileRegistry)
            /\ response' = Response(resp)
            /\ IF resp.kind = "planner_error"
               THEN /\ End("PlannerError")
                    /\ UNCHANGED <<tool, done, last_turn, conversation_history>>
               ELSE /\ tool' = t
                    /\ IF t = "done"
                       THEN /\ End("Done") /\ done' = d
                            /\ UNCHANGED <<last_turn, conversation_history>>
                       ELSE IF FileIndexError(t, last_tool, conversation_history)
                               \/ (~FileStagnant(t, last_tool, last_turn)
                                     /\ MembershipTypeError(t))
                       THEN /\ End("Crash") /\ done' = d
                            /\ UNCHANGED <<last_turn, conversation_history>>
                       ELSE IF FileStagnant(t, last_tool, last_turn)
                       THEN /\ End("Stagnation") /\ done' = d
                            /\ last_turn' = Turn("notice")
                            /\ conversation_history' =
                                  Append(conversation_history, "assistant")
                       ELSE IF t \in FileRegistry
                       THEN /\ pc' = "executing" /\ done' = d
                            /\ UNCHANGED <<running, last_turn, conversation_history>>
                       ELSE /\ End("UnknownTool") /\ done' = TRUE
                            /\ last_turn' = Turn("notice")
                            /\ conversation_history' =
                                  Messages(conversation_history)
                                      \o <<"assistant", "assistant">>
    /\ UNCHANGED <<components, session, agent, user_input, executions, last_tool, validation_count,
                   total_operations, completed_operations, result>>

\* the capability call and what main() decides from its result
FileExecute ==
    /\ agent = "file"
    /\ pc = "executing"
    /\ \E o \in FileOutcomes(tool) : \E m \in FileResultMarks(tool, o) :
        /\ executions' = executions + 1
        /\ result' = [outcome |-> o, marks |-> m]
        /\ clean' = (clean /\ o \notin {"raised", "cancelled"})
        /\ IF o = "raised"
           THEN /\ End("ExecError")
                /\ UNCHANGED <<done, last_tool, validation_count, last_turn,
                               conversation_history>>
           ELSE LET d == AutoDone(tool, done, user_input)
                    vc == IF Counted(tool, m) THEN validation_count + 1
                                              ELSE validation_count
                IN  /\ last_turn' = ResultTurn(m)
                    /\ conversation_history' =
                          Messages(conversation_history) \o <<"assistant", "assistant">>
                    /\ done' = d
                    /\ validation_count' = vc
                    /\ IF CancelledContinue(tool, m)
                       THEN pc' = "loop" /\ UNCHANGED <<running, last_tool>>
                       ELSE /\ last_tool' = tool
                            /\ IF d THEN End("Done")
                               ELSE IF TooManyValidations(vc, user_input)
                               THEN End("TooManyValidations")
                               ELSE pc' = "loop" /\ UNCHANGED running
    /\ UNCHANGED <<components, session, agent, user_input, iterations, tool, total_operations,
                   completed_operations, response>>

----------------------------------------------------------------------------
(* Git agent *)

\* one planner call and what main() decides from it
GitPlan ==
    /\ agent = "git"
    /\ pc = "loop"
    /\ InRange(iterations, max_iterations(agent))
    /\ \E resp \in JsonResponses("git") :
        LET t == ParsedTool(resp)
            d == ParsedDone(resp)
        IN  /\ iterations' = iterations + 1
            /\ clean' = (clean /\ resp.kind = "envelope" /\ t \in GitRegistry)
            /\ response' = Response(resp)
            /\ IF resp.kind = "planner_error"
               THEN /\ End("PlannerError")
                    /\ UNCHANGED <<tool, done, last_turn, conversation_history>>
               ELSE /\ tool' = t
                    /\ conversation_history' =
                          Messages(conversation_history) \o <<"assistant">>
                    /\ done' = d
                    /\ last_turn' = IF resp.kind = "envelope" THEN Turn("planner")
                                                              ELSE Turn("correction")
                    /\ IF t = "done" THEN End("Done")
                       ELSE IF MembershipTypeError(t) THEN End("Crash")
                       ELSE IF t \notin GitRegistry THEN End("UnknownTool")
                       ELSE pc' = "executing" /\ UNCHANGED running
    /\ UNCHANGED <<components, session, agent, user_input, executions, last_tool, validation_count,
                   total_operations, completed_operations, result>>

\* the capability call and what main() decides from its result
GitExecute ==
    /\ agent = "git"
    /\ pc = "executing"
    /\ \E o \in GitOutcomes(tool) :
        LET m == GitOutcomeMarks(o)
        IN  /\ executions' = executions + 1
            /\ result' = [outcome |-> o, marks |-> m]
            /\ clean' = (clean /\ o \notin {"raised", "cancelled"})
            /\ conversation_history' = Append(conversation_history, "assistant")
            /\ IF o = "raised"
               THEN /\ last_turn' = Turn("error")
                    /\ End("ExecError")
                    /\ UNCHANGED completed_operations
               ELSE /\ last_turn' = ResultTurn(m)
                    /\ IF GitCancelled(m)
                       THEN pc' = "loop" /\ UNCHANGED <<running, completed_operations>>
                       ELSE /\ completed_operations' = completed_operations + 1
                            /\ IF GitDone(done, completed_operations + 1, total_operations)
                               THEN End("Done")
                               ELSE pc' = "loop" /\ UNCHANGED running
    /\ UNCHANGED <<components, session, agent, user_input, iterations, tool, done, last_tool,
                   validation_count, total_operations, response>>

----------------------------------------------------------------------------
(* Browser agent *)

\* one planner call and what main() decides from it
BrowserPlan ==
    /\ agent = "browser"
    /\ pc = "loop"
    /\ InRange(iterations, max_iterations(agent))
    /\ \E resp \in TagResponses :
        LET t == ParsedTool(resp)
        IN  /\ iterations' = iterations + 1
            /\ clean' = (clean /\ resp.kind = "envelope" /\ t \in BrowserRegistry)
            /\ response' = Response(resp)
            /\ conversation_history' = Append(conversation_history, "assistant")
            /\ tool' = t
            /\ done' = BrowserParsedDone(resp)
            /\ last_turn' = IF resp.kind = "planner_error" THEN Turn("error")
                                                           ELSE Turn("planner")
            /\ IF t = "done" THEN End("Done")
               ELSE IF t \in BrowserRegistry THEN pc' = "executing" /\ UNCHANGED running
               ELSE End("UnknownTool")
    /\ UNCHANGED <<components, session, agent, user_input, executions, last_tool, validation_count,
                   total_operations, completed_operations, result>>

\* the capability call and what main() decides from its result
BrowserExecute ==
    /\ agent = "browser"
    /\ pc = "executing"
    /\ \E o \in BrowserOutcomes(tool) : \E s \in SessionAfter(tool, o, session) :
        /\ session' = s
        /\ executions' = executions + 1
        /\ result' = [outcome |-> o, marks |-> OutcomeMarks(o)]
        /\ clean' = (clean /\ o \notin {"raised", "cancelled"})
        /\ conversation_history' = Append(conversation_history, "tool")
        /\ IF o = "raised"
           THEN /\ last_turn' = Turn("error")
                /\ IF BrowserAborts(tool) THEN End("CriticalAbort")
                   ELSE pc' = "loop" /\ UNCHANGED running
           ELSE /\ last_turn' = ResultTurn(OutcomeMarks(o))
                /\ IF done THEN End("Done")
                   ELSE pc' = "loop" /\ UNCHANGED running
    /\ UNCHANGED <<components, agent, user_input, iterations, tool, done, last_tool,
                   validation_count, total_operations, completed_operations,
                   response>>

\* KeyboardInterrupt in the loop; inside launch_browser it can come after
\* the driver was started
BrowserInterrupt ==
    /\ agent = "browser"
    /\ pc \in {"loop", "executing"}
    /\ End("Interrupted")
    /\ session' \in
          IF pc = "executing" /\ tool = "launch_browser" /\ ~session.handle
          THEN {session, DriverStarted(session)}
          ELSE {session}
    /\ UNCHANGED <<components, agent, user_input, iterations, executions, tool, done,
                   last_tool, validation_count, total_operations,
                   completed_operations, last_turn, result, clean, response,
                   conversation_history>>

\* the finally clause of main()
BrowserTeardown ==
    /\ agent = "browser"
    /\ pc = "terminal"
    /\ outcome # "Listed"
    /\ pc' = "exited"
    /\ session' \in
          IF session.handle
          THEN CloseBrowser("ok", session) \cup CloseBrowser("failed", session)
          ELSE {session}
    /\ UNCHANGED <<components, agent, user_input, iterations, executions, tool, done,
                   last_tool, validation_count, total_operations,
                   completed_operations, last_turn, result, clean, response,
                   conversation_history, running>>

----------------------------------------------------------------------------
(* The loop runs out *)

\* range(max_iterations) is exhausted
LoopExhausted ==
    /\ pc = "loop"
    /\ ~InRange(iterations, max_iterations(agent))
    /\ End("MaxIterations")
    /\ UNCHANGED <<components, session, agent, user_input, iterations, executions, tool, done,
                   last_tool, validation_count, total_operations,
                   completed_operations, last_turn, result, clean, response,
                   conversation_history>>

Next ==
    \/ Start
    \/ FilePlan
    \/ FileExecute
    \/ GitPlan
    \/ GitExecute
    \/ BrowserPlan
    \/ BrowserExecute
    \/ BrowserInterrupt
    \/ BrowserTeardown
    \/ LoopExhausted

Spec == Init /\ [][Next]_vars

\* the estimate alone, over every instruction up to MaxWords words
SpecEstimate == InitEstimate /\ [][Start]_vars

\* main() is not running in the specifications of the parts
NoRun ==
    /\ agent = "file"
    /\ user_input = <<"w">>
    /\ InitLocals

----------------------------------------------------------------------------
(* Loading a module: the @tool decorator *)

tool_decorator ==
    /\ registry.defined < MaxDefs
    /\ \E name \in DefNames :
        registry' =
            [entries |-> SetItem(registry.entries, name, registry.defined + 1),
             defined |-> registry.defined + 1,
             last |-> name,
             error |-> "none"]
    /\ UNCHANGED <<run, raw_output, parsed, filesystem, final_summary,
                   classified, commit, page, call>>

InitRegistry == NoRun /\ IdleComponents

SpecRegistry == InitRegistry /\ [][tool_decorator]_vars

----------------------------------------------------------------------------
(* choose_tool on one planner text *)

choose_tool ==
    /\ parsed = "none"
    /\ parsed' = IF raw_output.format = "json" THEN ParseJson(raw_output)
                                               ELSE ParseTag(raw_output)
    /\ UNCHANGED <<run, registry, raw_output, filesystem, final_summary,
                   classified, commit, page, call>>

InitParser ==
    /\ NoRun
    /\ registry = NoRegistry
    /\ raw_output \in Texts
    /\ parsed = "none"
    /\ filesystem = NoFilesystem
    /\ final_summary = NoSummary
    /\ classified = NoCalls
    /\ commit = NoCommit
    /\ page = NoPage
    /\ call = NoCall

SpecParser == InitParser /\ [][choose_tool]_vars

----------------------------------------------------------------------------
(* The cleaning capabilities of the file agent *)

empty_cleanup ==
    /\ final_summary.tool = None
    /\ \E delete_empty_files \in BOOLEAN, delete_empty_dirs \in BOOLEAN,
          answer_files \in {"y", "n"}, answer_dirs \in {"y", "n"},
          removed_files \in SUBSET filesystem.files,
          removed_dirs \in SUBSET filesystem.dirs :
        /\ filesystem' =
              [files |-> CleanupLeft(filesystem.files, delete_empty_files,
                                     answer_files, removed_files),
               dirs |-> CleanupLeft(filesystem.dirs, delete_empty_dirs,
                                    answer_dirs, removed_dirs)]
        /\ final_summary' =
              [tool |-> "empty_cleanup",
               marks |-> CleanupMarks(filesystem.files, delete_empty_files,
                                      answer_files)
                         \cup CleanupMarks(filesystem.dirs, delete_empty_dirs,
                                           answer_dirs),
               before |-> filesystem]
    /\ UNCHANGED <<run, registry, raw_output, parsed, classified, commit,
                   page, call>>

delete_directory ==
    /\ final_summary.tool = None
    /\ \E path \in EmptyDirs, answer \in {"y", "n"}, rmtree \in {"ok", "error"} :
        IF path \notin filesystem.dirs
        THEN /\ final_summary' =
                   [tool |-> "delete_directory",
                    marks |-> {"not found"} \cup PathMarks(path),
                    before |-> filesystem]
             /\ UNCHANGED filesystem
        ELSE IF answer # "y"
        THEN /\ final_summary' =
                   [tool |-> "delete_directory",
                    marks |-> {"cancelled"} \cup PathMarks(path),
                    before |-> filesystem]
             /\ UNCHANGED filesystem
        ELSE IF rmtree = "error"
        THEN /\ final_summary' =
                   [tool |-> "delete_directory", marks |-> {},
                    before |-> filesystem]
             /\ UNCHANGED filesystem
        ELSE /\ final_summary' =
                   [tool |-> "delete_directory", marks |-> PathMarks(path),
                    before |-> filesystem]
             /\ filesystem' = [filesystem EXCEPT !.dirs = @ \ {path}]
    /\ UNCHANGED <<run, registry, raw_output, parsed, classified, commit,
                   page, call>>

InitCleanup ==
    /\ NoRun
    /\ registry = NoRegistry
    /\ raw_output = NoText
    /\ parsed = "none"
    /\ filesystem \in Filesystems
    /\ final_summary = NoSummary
    /\ classified = NoCalls
    /\ commit = NoCommit
    /\ page = NoPage
    /\ call = NoCall

SpecCleanup == InitCleanup /\ [][empty_cleanup \/ delete_directory]_vars

----------------------------------------------------------------------------
(* What the file agent's loop decides from a result text *)

\* the decisions main() takes from the result text m of capability t: the
\* stagnation guard when the planner names t again, the validation count,
\* the `continue` of a cancelled step
Decisions(t, m) ==
    [stagnation |-> FileStagnant(t, t, ResultTurn(m)),
     counted |-> Counted(t, m),
     continue |-> CancelledContinue(t, m)]

Classify ==
    /\ classified.decisions = <<>>
    /\ classified' =
          [classified EXCEPT !.decisions =
              <<Decisions(classified.tool, classified.texts[1]),
                Decisions(classified.tool, classified.texts[2])>>]
    /\ UNCHANGED <<run, registry, raw_output, parsed, filesystem, final_summary,
                   commit, page, call>>

\* one capability, one outcome, two result texts that differ in the names
\* they repeat
InitClassify ==
    /\ NoRun
    /\ registry = NoRegistry
    /\ raw_output = NoText
    /\ parsed = "none"
    /\ filesystem = NoFilesystem
    /\ final_summary = NoSummary
    /\ commit = NoCommit
    /\ page = NoPage
    /\ call = NoCall
    /\ \E t \in FileRegistry : \E o \in FileOutcomes(t) \ {"raised"} :
       \E m1 \in FileResultMarks(t, o), m2 \in FileResultMarks(t, o) :
          classified = [tool |-> t, outcome |-> o, texts |-> <<m1, m2>>,
                        decisions |-> <<>>]

SpecClassify == InitClassify /\ [][Classify]_vars

----------------------------------------------------------------------------
(* Page tools of the browser agent on a launched browser *)

navigate_to_url ==
    /\ \E url \in 1..MaxPages :
          /\ url # page.url
          /\ page' = [page EXCEPT !.url = url]
    /\ UNCHANGED <<run, registry, raw_output, parsed, filesystem,
                   final_summary, classified, commit, call>>

get_page_state ==
    /\ page' = [page EXCEPT !.current_page_elements =
                               [ids |-> ElementsOn(page.url), of |-> page.url]]
    /\ UNCHANGED <<run, registry, raw_output, parsed, filesystem,
                   final_summary, classified, commit, call>>

\* fill and text_content leave the page loaded
type_text ==
    /\ \E identifier \in Identifiers :
          page' = [page EXCEPT !.resolved = Resolve("type_text", identifier)]
    /\ UNCHANGED <<run, registry, raw_output, parsed, filesystem,
                   final_summary, classified, commit, call>>

get_element_text ==
    /\ \E identifier \in Identifiers :
          page' = [page EXCEPT
                     !.resolved = Resolve("get_element_text", identifier)]
    /\ UNCHANGED <<run, registry, raw_output, parsed, filesystem,
                   final_summary, classified, commit, call>>

\* a click may load another page
click_element ==
    /\ \E identifier \in Identifiers, url \in 1..MaxPages :
          page' = [page EXCEPT !.resolved = Resolve("click_element", identifier),
                               !.url = url]
    /\ UNCHANGED <<run, registry, raw_output, parsed, filesystem,
                   final_summary, classified, commit, call>>

InitElements == NoRun /\ IdleComponents

SpecElements ==
    InitElements /\ [][navigate_to_url \/ get_page_state \/ type_text
                        \/ get_element_text \/ click_element]_vars

----------------------------------------------------------------------------
(* Calls of the browser capabilities in any order *)

launch_browser ==
    /\ \E o \in {"ok", "failed"} : \E s \in LaunchBrowser(o, session) :
          /\ session' = s
          /\ call' = [tool |-> "launch_browser",
                      message |-> LaunchMessage(o, session),
                      driver |-> ~session.handle]
    /\ UNCHANGED <<agent, user_input, pc, iterations, executions, tool, done,
                   last_tool, validation_count, total_operations,
                   completed_operations, last_turn, result, outcome, clean,
                   response, conversation_history, status_line, exit_status,
                   registry, raw_output, parsed, filesystem, final_summary,
                   classified, commit, page>>

close_browser ==
    /\ \E o \in {"ok", "failed"} : \E s \in CloseBrowser(o, session) :
          /\ session' = s
          /\ call' = [tool |-> "close_browser",
                      message |-> CloseMessage(o, session),
                      driver |-> session.handle]
    /\ UNCHANGED <<agent, user_input, pc, iterations, executions, tool, done,
                   last_tool, validation_count, total_operations,
                   completed_operations, last_turn, result, outcome, clean,
                   response, conversation_history, status_line, exit_status,
                   registry, raw_output, parsed, filesystem, final_summary,
                   classified, commit, page>>

\* a capability of PageTools
page_tool ==
    /\ \E t \in PageTools : \E message \in PageMessages(session) :
          call' = [tool |-> t, message |-> message, driver |-> HasPage(session)]
    /\ UNCHANGED <<agent, user_input, pc, iterations, executions, tool, done,
                   last_tool, validation_count, total_operations,
                   completed_operations, last_turn, result, outcome, clean,
                   response, conversation_history, status_line, exit_status,
                   registry, raw_output, parsed, filesystem, final_summary,
                   classified, commit, page, session>>

InitSession ==
    /\ agent = "browser"
    /\ user_input = <<"w">>
    /\ InitLocals
    /\ IdleComponents

SpecSession ==
    InitSession /\ [][launch_browser \/ close_browser \/ page_tool]_vars

----------------------------------------------------------------------------
(* One call of git_commit *)

\* up to the test of the staged changes
git_commit_check ==
    /\ commit.pc = "called"
    /\ IF commit.message \notin Falsy
       THEN commit' = [commit EXCEPT !.pc = "committing",
                                     !.final_message = commit.message]
       ELSE IF StagedCheck(commit.repo) = 0
       THEN commit' = [commit EXCEPT !.pc = "returned",
                                     !.result = "error: nothing staged"]
       ELSE commit' = [commit EXCEPT !.pc = "drafting"]
    /\ UNCHANGED <<run, registry, raw_output, parsed, filesystem,
                   final_summary, classified, page, call>>

\* the model call and the message made of its answer
git_commit_draft ==
    /\ commit.pc = "drafting"
    /\ \E d \in Drafts :
        LET final == FinalMessage(d)
        IN  commit' =
              IF final \in Falsy
              THEN [commit EXCEPT !.pc = "returned", !.model_called = TRUE,
                                  !.draft = d, !.final_message = final,
                                  !.result = "error: empty message"]
              ELSE [commit EXCEPT !.pc = "committing", !.model_called = TRUE,
                                  !.draft = d, !.final_message = final]
    /\ UNCHANGED <<run, registry, raw_output, parsed, filesystem,
                   final_summary, classified, page, call>>

\* git commit -m final_message; git itself refuses a message of blanks
git_commit_run ==
    /\ commit.pc = "committing"
    /\ \E returncode \in IF commit.repo = "staged" /\ commit.final_message # " "
                          THEN {0, 1} ELSE {1} :
        commit' = [commit EXCEPT !.pc = "returned",
                                 !.committed = commit.final_message,
                                 !.result = IF returncode = 0 THEN "committed"
                                                              ELSE "git error"]
    /\ UNCHANGED <<run, registry, raw_output, parsed, filesystem,
                   final_summary, classified, page, call>>

InitCommit ==
    /\ NoRun
    /\ registry = NoRegistry
    /\ raw_output = NoText
    /\ parsed = "none"
    /\ filesystem = NoFilesystem
    /\ final_summary = NoSummary
    /\ classified = NoCalls
    /\ page = NoPage
    /\ call = NoCall
    /\ \E message \in CommitMessages, repo \in Repositories :
          commit = [NoCommit EXCEPT !.pc = "called", !.message = message,
                                    !.repo = repo]

SpecCommit ==
    InitCommit /\ [][git_commit_check \/ git_commit_draft \/ git_commit_run]_vars

----------------------------------------------------------------------------
(* Properties *)

\* a capability call has just been made in this step
Executed == pc = "executing" /\ executions' = executions + 1

\* a planner call has just been answered in this step (the call itself did
\* not fail)
Planned == pc = "loop" /\ iterations' = iterations + 1 /\ outcome' # "PlannerError"

Terminal(o) == pc = "terminal" /\ outcome = o

\* C1: in each agent one run makes at most max_iterations planner calls
\* (15 file, 10 git, 20 browser), and so at most as many capability calls.
C1_IterationCeiling ==
    /\ iterations <= max_iterations(agent)
    /\ executions <= iterations
    /\ executions <= max_iterations(agent)

C1_Witness ==
    /\ Terminal("MaxIterations")
    /\ iterations = max_iterations(agent)
    /\ executions = max_iterations(agent)

C3_CancelledNotCounted ==
    [][/\ (agent = "git" /\ Executed /\ "cancelled by user" \in result'.marks)
            => /\ completed_operations' = completed_operations
               /\ pc' = "loop"
               /\ outcome' = "running"
       /\ (agent = "git" /\ pc = "loop" /\ "cancelled by user" \in result.marks)
            => (iterations' = iterations + 1 \/ outcome' = "MaxIterations")]_vars

C3_Witness ==
    /\ agent = "git"
    /\ pc = "loop"
    /\ done
    /\ result.outcome = "cancelled"
    /\ executions = 1
    /\ completed_operations = 0

\* C4 as claimed: file agent: a capability call that the operator cancelled
\* is not counted in validation_count and the controller goes back to
\* planning instead of ending the run, whatever the planner's done flag.
C4_Claim ==
    [][(agent = "file" /\ Executed /\ result'.outcome = "cancelled")
        => (validation_count' = validation_count /\ pc' = "loop")]_vars

\* C5 as claimed: file agent: when the planner names the capability of the
\* preceding turn again and that turn's call reported "not found", the run
\* ends with the stagnation failure at the repeat.
C5_Claim ==
    [][(agent = "file" /\ Planned /\ result.outcome = "not_found" /\ tool' = tool)
        => (pc' = "terminal" /\ outcome' = "Stagnation")]_vars

\* C6 as claimed: file agent, instruction without connective: delete_file
\* reports "not found", the planner names delete_file again, and the run ends
\* with the stagnation failure after exactly 2 calls of delete_file.
C6_Original ==
    (/\ agent = "file"
     /\ Connectives(user_input) = 0
     /\ Terminal("Stagnation")
     /\ iterations = 2
     /\ tool = "delete_file"
     /\ result.outcome = "not_found") => executions = 2

\* C6 as amended: in that run the stagnation failure comes at the second
\* planner call, after exactly 1 call of delete_file; the repeated call is
\* not made.
C6_StagnationAfterOne ==
    [][(/\ agent = "file"
        /\ Connectives(user_input) = 0
        /\ Planned
        /\ iterations = 1
        /\ executions = 1
        /\ tool = "delete_file"
        /\ result.outcome = "not_found"
        /\ tool' = "delete_file")
        => (pc' = "terminal" /\ outcome' = "Stagnation" /\ executions' = 1)]_vars

C6_Witness ==
    /\ agent = "file"
    /\ Connectives(user_input) = 0
    /\ Terminal("Stagnation")
    /\ iterations = 2
    /\ executions = 1
    /\ tool = "delete_file"
    /\ ~done
    /\ result.outcome = "not_found"

\* C7 as claimed: git and browser agent: when the planner names the
\* capability of the preceding turn again and that turn's result was a
\* not-found failure, the run ends with the stagnation failure.
C7_Claim ==
    [][(/\ agent \in {"git", "browser"}
        /\ Planned
        /\ result.outcome = "not_found"
        /\ tool' = tool)
        => (pc' = "terminal" /\ outcome' = "Stagnation")]_vars

C9_Original ==
    (agent \in {"file", "git"} /\ Terminal("Done") /\ clean) =>
        executions = Connectives(user_input) + 1

\* C9 as amended: git agent: such a run has made at most N+1 calls, and
\* exactly N+1 when the planner's done flag of the last turn is false; file
\* agent: such a run ends on a turn whose done flag (the planner's, or the
\* one set for a read-only capability) is true, whatever N is.
C9_DoneWithinEstimate ==
    /\ (agent = "git" /\ Terminal("Done") /\ clean) =>
          /\ executions <= Connectives(user_input) + 1
          /\ ~done => executions = Connectives(user_input) + 1
    /\ (agent = "file" /\ Terminal("Done") /\ clean) => done

C9_Witness ==
    /\ agent = "git"
    /\ Terminal("Done")
    /\ clean
    /\ ~done
    /\ Connectives(user_input) = 2
    /\ executions = 3

\* the state right after the first capability call of a run whose
\* instruction has no connective, the call neither raised nor cancelled, the
\* run not interrupted from the keyboard
AfterFirstCall ==
    /\ Connectives(user_input) = 0
    /\ iterations = 1
    /\ executions = 1
    /\ pc # "executing"
    /\ clean
    /\ outcome # "Interrupted"

PlannerCalled == pc = "loop" /\ iterations' = iterations + 1

C12_NoEncodingIsDone ==
    [][(PlannerCalled /\ response'.kind \in NoEncoding) =>
        /\ executions' = executions
        /\ pc' = "terminal" /\ outcome' = "Done"
        /\ iterations' = 1 => executions' = 0]_vars

C12_Witness ==
    /\ response.kind \in NoEncoding
    /\ Terminal("Done")
    /\ iterations = 1
    /\ executions = 0

\* C13: in every agent, when the name choose_tool returned is not in the
\* registry, no capability is executed and the run ends on that turn with the
\* failure UnknownCapability, reported as a failure and not as a completed
\* task.
C13_Claim ==
    [][(Planned /\ tool' \notin TOOL_REGISTRY(agent) \cup {"done"}) =>
        /\ executions' = executions
        /\ pc' = "terminal" /\ outcome' = "UnknownTool"
        /\ status_line' # "completed"]_vars

\* C14: in every agent a capability call is made only after the planner call
\* of the same iteration has returned an encoding, the name called is the one
\* of the first encoding of that answer, at most one call is made between two
\* planner calls, and when the planner is called again the result (or the
\* error) of the call is the last turn of the history.
C14_OneCallPerTurn ==
    [][/\ executions' # executions =>
            /\ pc = "executing" /\ executions' = executions + 1
            /\ iterations' = iterations /\ tool' = tool
            /\ response.kind = "envelope" /\ tool = response.tool
            /\ pc' # "executing"
            /\ pc' = "loop" =>
                  /\ last_turn'.kind \in {"result", "error"}
                  /\ last_turn'.marks = result'.marks
                  /\ Len(conversation_history') > Len(conversation_history)
       /\ pc' = "executing" =>
            /\ PlannerCalled /\ executions' = executions
            /\ response'.kind = "envelope"
       /\ (PlannerCalled /\ response'.kind = "envelope") =>
            tool' = response'.tool
       /\ (PlannerCalled /\ executions > 0 /\ executions = iterations) =>
            /\ last_turn.kind \in {"result", "error"}
            /\ last_turn.marks = result.marks]_vars

C14_Witness ==
    /\ pc = "loop"
    /\ iterations = 2
    /\ executions = 2
    /\ last_turn.kind = "result"

\* C15: git agent: after a capability call that neither raised nor was
\* cancelled the run ends Done exactly when the planner's done flag is true
\* or completed_operations has reached total_operations; so no run makes
\* more calls that were not cancelled than total_operations.
C15_GitDoneRule ==
    [][agent = "git" =>
        /\ (Executed /\ result'.outcome \notin {"raised", "cancelled"}) =>
              /\ completed_operations' = completed_operations + 1
              /\ (pc' = "terminal" /\ outcome' = "Done")
                    <=> (done \/ completed_operations' >= total_operations)
              /\ pc' \in {"terminal", "loop"}
        /\ (Executed /\ result'.outcome \in {"raised", "cancelled"}) =>
              completed_operations' = completed_operations
        /\ pc' # "start" =>
              /\ completed_operations' <= total_operations
              /\ outcome' = "ExecError" => completed_operations' < total_operations]_vars

C15_Witness ==
    /\ agent = "git"
    /\ Terminal("Done")
    /\ ~done
    /\ total_operations = 3
    /\ completed_operations = 3
    /\ executions > 3

IsPrefix(s, t) == Len(s) <= Len(t) /\ SubSeq(t, 1, Len(s)) = s

\* C16: in all three agents the history is append-only within a run: the
\* history the controller holds before a step is a prefix of the one it holds
\* after it.
C16_Claim == [][IsPrefix(conversation_history, conversation_history')]_vars

\* C17: browser agent: on every way out of a run every browser and every
\* Playwright driver that was started is released, and released once:
\* close() is never called on a browser that is closed already and no
\* started driver is left running.
C17_Claim ==
    /\ ~session.closed_twice
    /\ pc = "exited" =>
          /\ session.browser # "open"
          /\ session.playwright # "running"
          /\ ~session.orphan

\* C18: in every agent, when the planner call itself fails, a failure turn is
\* recorded in the history and the run ends with a failure that is not Done;
\* the error does not leave the run loop.
C18_Claim ==
    [][(PlannerCalled /\ response'.kind = "planner_error") =>
        /\ Len(conversation_history') = Len(conversation_history) + 1
        /\ last_turn'.kind = "error"
        /\ pc' = "terminal"
        /\ outcome' \notin {"Done", "PlannerError"}
        /\ status_line' \notin {"completed", "traceback"}]_vars

Failures ==
    {"UnknownTool", "Stagnation", "MaxIterations", "ExecError",
     "TooManyValidations", "CriticalAbort"}

\* C19: a run exits with status 0 when it ends Done and with a status other
\* than 0 when it ends in a failure, started directly or through main.py.
C19_Claim ==
    pc = "terminal" =>
        /\ outcome = "Done" =>
              exit_status.direct = 0 /\ exit_status.via_main = 0
        /\ outcome \in Failures =>
              exit_status.direct # 0 /\ exit_status.via_main # 0

\* C20: every run ends by printing a final status line that states completion
\* or the failure that ended it; at the iteration ceiling it reports the
\* max-iterations failure.  (Stated here for the runs in which the planner
\* call did not fail.)
C20_Claim ==
    (pc = "terminal" /\ outcome # "PlannerError") =>
        /\ status_line # "none"
        /\ outcome = "MaxIterations" => status_line = "failed: max iterations"

\* C21: decorating a function whose name is in the registry already fails
\* with a duplicate-capability error and leaves the entries as they were.
C21_Claim ==
    [][(/\ registry'.defined = registry.defined + 1
        /\ Registered(registry.entries, registry'.last)) =>
            /\ registry'.error = "DuplicateCapabilityError"
            /\ registry'.entries = registry.entries]_vars

\* C22: the instruction 'list-tools', in any case of letters, prints the
\* catalog and returns: no planner call, no capability call, the history and
\* the registry as they were.
C22_ListTools ==
    [][(pc = "start" /\ user_input \in ListInstructions) =>
        /\ pc' = "terminal" /\ outcome' = "Listed"
        /\ status_line' = "catalog"
        /\ exit_status' = [direct |-> 0, via_main |-> 0]
        /\ iterations' = 0 /\ executions' = 0
        /\ response' = NoResponse
        /\ conversation_history' = <<>> /\ last_turn' = NoTurn
        /\ registry' = registry]_vars

C22_Witness ==
    /\ Terminal("Listed")
    /\ user_input = <<"List-Tools">>
    /\ iterations = 0
    /\ executions = 0

\* C23: file agent and git agent: whatever text the planner answers, also an
\* envelope whose "tool" value is null or a list, the run ends without an
\* exception leaving main().
C23_Claim ==
    (agent \in {"file", "git"} /\ response.kind # "planner_error") =>
        (outcome # "Crash" /\ status_line # "traceback")

\* C24: for every well-formed envelope, with or without prose around it, the
\* parser returns the tool and the argument object that were written, also
\* when the argument object holds nested objects, braces inside strings or
\* line breaks.
C24_Claim == parsed \in {"none", "envelope"}

\* C25: file agent: a capability call whose result text holds 'cancelled'
\* has left the filesystem as it was, whatever the operator answered.
C25_Claim ==
    "cancelled" \in final_summary.marks => filesystem = final_summary.before

\* C26: file agent: what the loop decides from a result (stagnation, counted,
\* cancelled) depends on the outcome of the capability only: two calls of one
\* capability with one outcome and different names lead to the same
\* decisions.
C26_Claim ==
    classified.decisions # <<>> =>
        classified.decisions[1] = classified.decisions[2]

\* C27: git agent: completed_operations goes up by one at every capability
\* call that returns without raising and whose summary lacks 'cancelled by
\* user', also when the summary reports a git error, and stays as it is at
\* every other step; so a run can end Done through the counter with failed
\* git commands only.
C27_CountsFailures ==
    [][agent = "git" =>
        IF /\ Executed
           /\ result'.outcome # "raised"
           /\ "cancelled by user" \notin result'.marks
        THEN completed_operations' = completed_operations + 1
        ELSE completed_operations' = completed_operations]_vars

C27_Witness ==
    /\ agent = "git"
    /\ Terminal("Done")
    /\ ~done
    /\ result.outcome = "git_error"
    /\ executions = 1
    /\ completed_operations = 1
    /\ total_operations = 1

\* C28: git_commit never runs git commit with an empty message; with no
\* message and nothing staged it returns an error without calling the model
\* or committing; with no message and staged changes it commits with the
\* drafted message, or with a fixed default message when the model call or
\* the parsing of its answer fails; an empty resulting message is an error
\* without a commit.
C28_Claim ==
    /\ commit.committed # ""
    /\ (commit.pc = "returned" /\ commit.message \in Falsy) =>
          /\ commit.repo # "staged" =>
                /\ ~commit.model_called
                /\ commit.committed = None
                /\ commit.result = "error: nothing staged"
          /\ commit.repo = "staged" =>
                /\ commit.model_called
                /\ IF commit.final_message = ""
                   THEN /\ commit.committed = None
                        /\ commit.result = "error: empty message"
                   ELSE commit.committed = commit.final_message

\* C29: whenever type_text, click_element or get_element_text resolves an
\* element ID, the selector used was captured by get_page_state on the page
\* that is loaded; an ID captured before a navigation or a page-changing
\* click is never resolved against the new page.
C29_Claim ==
    page.resolved.identifier \in {"E1", "E2"} =>
        page.resolved.of = page.resolved.url

\* C30: a page handle exists only if a browser handle exists;
\* launch_browser while a browser handle exists changes no handle and
\* returns the "already launched" message; a page capability called with
\* no page returns "Browser not launched" without reaching the driver;
\* after a close_browser that reports success a new launch_browser is
\* accepted.
C30_SessionHandles ==
    [][/\ session'.page => session'.handle
       /\ (call'.tool = "launch_browser" /\ session.handle) =>
             /\ session' = session
             /\ call'.message = "Browser already launched"
             /\ ~call'.driver
       /\ (call'.tool \in PageTools /\ ~session.page) =>
             /\ call'.message = "Browser not launched"
             /\ ~call'.driver
             /\ session' = session
       /\ (call.tool = "close_browser" /\ call.message = "Browser closed") =>
             /\ ~session.handle /\ ~session.page
             /\ call'.tool = "launch_browser" =>
                   /\ call'.message # "Browser already launched"
                   /\ call'.driver]_vars

\* a page capability was called while _browser was set and _page was not,
\* and a browser was launched again after a close that reported success
C30_Witness ==
    /\ session.handle
    /\ ~session.page
    /\ session.browser = "open"
    /\ session.playwright = "running"
    /\ session.closed_twice
    /\ call.tool = "get_page_state"
    /\ call.message = "Browser not launched"

====
